---- MODULE Spec2Model ----
(***************************************************************************)
(* Model of quternion.py: the Quaternion class and its operations.         *)
(*                                                                         *)
(* State: the live Quaternion instances (objs), and the call the caller    *)
(* has just made on them (op, args) with the value it returned or the      *)
(* exception it raised (ret); op = "idle" between calls.                   *)
(*                                                                         *)
(* Numbers.  Python's numbers are modelled as exact reals of the form      *)
(*     (n / d) * sqrt(r)     d > 0, gcd(n, d) = 1, r >= 1 squarefree,      *)
(* written [n |-> n, d |-> d, r |-> r]; a rational has r = 1.  This set is *)
(* closed under every arithmetic step the class takes on rational          *)
(* coefficients (+, -, *, /, unary -, math.sqrt, ** 2).  Floating-point    *)
(* rounding, overflow and underflow are not modelled: results are the      *)
(* exact values the float results approximate.  math.acos, math.cos and    *)
(* math.sin are kept symbolic or tabulated (see acos2, cos_half, sin_half).*)
(*                                                                         *)
(* A Python exception is modelled as the value [fault |-> <its name>].     *)
(*                                                                         *)
(* Methods.  A Python object is mutable, so every method is modelled by    *)
(* what it returns AND by what it leaves in its operands: a method         *)
(* operator yields [self |-> .., ret |-> ..] (unary) or                    *)
(* [self |-> .., other |-> .., ret |-> ..] (binary).                       *)
(***************************************************************************)
EXTENDS Integers, Sequences, FiniteSets, TLC

VARIABLES objs, op, args, ret

vars == <<objs, op, args, ret>>

\* Bound: the number of Quaternion instances the caller constructs.
MaxObjs == 2

(***************************************************************************)
(* Exact arithmetic                                                        *)
(***************************************************************************)
Abs(x) == IF x < 0 THEN -x ELSE x

RECURSIVE GCD(_, _)
GCD(x, y) == IF y = 0 THEN Abs(x) ELSE GCD(y, x % y)

\* The largest j with j*j dividing m (m >= 1), searching upwards from k;
\* best is the largest found below k.
RECURSIVE SquarePartFrom(_, _, _)
SquarePartFrom(m, k, best) ==
    IF k * k > m THEN best
    ELSE SquarePartFrom(m, k + 1, IF m % (k * k) = 0 THEN k ELSE best)

SquarePart(m) == SquarePartFrom(m, 2, 1)

\* The number (n / d) * sqrt(r) in canonical form; d # 0, r >= 1 squarefree.
Real(n, d, r) ==
    IF n = 0 THEN [n |-> 0, d |-> 1, r |-> 1]
    ELSE LET s == IF d < 0 THEN -1 ELSE 1
             g == GCD(Abs(n), Abs(d))
         IN  [n |-> (s * n) \div g, d |-> (s * d) \div g, r |-> r]

\* An int literal.
Int2Real(i) == Real(i, 1, 1)

Zero == Int2Real(0)

One == Int2Real(1)

IsZero(x) == x.n = 0

\* Python unary minus.
Neg(x) == [x EXCEPT !.n = -x.n]

\* Python x * y.
Times(x, y) ==
    LET g  == GCD(x.r, y.r)
        g1 == GCD(Abs(x.n), y.d)
        g2 == GCD(Abs(y.n), x.d)
    IN  IF x.n = 0 \/ y.n = 0 THEN Zero
        ELSE Real(((x.n \div g1) * (y.n \div g2)) * g,
                  (x.d \div g2) * (y.d \div g1),
                  (x.r \div g) * (y.r \div g))

\* Python x + y; the two are rational multiples of the same square root.
Plus(x, y) ==
    IF x.n = 0 THEN y
    ELSE IF y.n = 0 THEN x
    ELSE LET g == GCD(x.d, y.d)
         IN  Real(x.n * (y.d \div g) + y.n * (x.d \div g), (x.d \div g) * y.d, x.r)

\* Python x - y.
Minus(x, y) == Plus(x, Neg(y))

ZeroDivisionError == [fault |-> "ZeroDivisionError"]

ValueError == [fault |-> "ValueError"]

Raised(x) == "fault" \in DOMAIN x

\* The first exception among the values xs, evaluated left to right.
FirstRaised(xs) ==
    xs[CHOOSE i \in DOMAIN xs : Raised(xs[i]) /\ \A j \in 1..(i - 1) : ~Raised(xs[j])]

AnyRaised(xs) == \E i \in DOMAIN xs : Raised(xs[i])

\* Python x / y: true division; a zero divisor raises ZeroDivisionError.
\* 1 / ((n/d) sqrt r) = (d / (n r)) sqrt r.
TrueDiv(x, y) ==
    IF IsZero(y) THEN ZeroDivisionError
    ELSE Times(x, Real(y.d, y.n * y.r, y.r))

\* Python x ** 2.
Pow2(x) == Times(x, x)

\* math.sqrt(x) for rational x; a negative argument raises ValueError
\* ("math domain error").  sqrt(n/d) = sqrt(n d) / d.
Sqrt(x) ==
    IF x.n < 0 THEN ValueError
    ELSE IF x.n = 0 THEN Zero
    ELSE LET kn == SquarePart(x.n)
             kd == SquarePart(x.d)
         IN  Real(kn * kd, x.d, (x.n \div (kn * kn)) * (x.d \div (kd * kd)))

\* x < 1e-10 for x >= 0:  x*x < 1e-20, i.e. n*n*r * 10^20 < d*d, computed
\* without leaving 32-bit integers.
LessThan1em10(x) ==
    LET P == x.n * x.n * x.r
        Q == x.d * x.d
    IN  x.n < 0 \/ P <= ((((Q - 1) \div 100000) \div 100000) \div 100000) \div 100000

\* 2 * math.acos(a): kept symbolic; |a| > 1 raises ValueError
\* ("math domain error").
acos2(a) ==
    IF a.n * a.n * a.r > a.d * a.d THEN ValueError
    ELSE [twice_acos |-> a]

(***************************************************************************)
(* class Quaternion                                                        *)
(***************************************************************************)
\* __init__: the four coefficients are stored as given, unvalidated.
Quaternion(a, b, c, d) == [a |-> a, b |-> b, c |-> c, d |-> d]

\* The expression Quaternion(a, b, c, d) whose arguments may raise: the
\* first exception propagates and no instance is constructed.
New(a, b, c, d) ==
    IF AnyRaised(<<a, b, c, d>>) THEN FirstRaised(<<a, b, c, d>>)
    ELSE Quaternion(a, b, c, d)

\* add with a slip in its last line: self.d + other.c.
add_slip(self, other) ==
    [self |-> self, other |-> other,
     ret |-> Quaternion(Plus(self.a, other.a),
                        Plus(self.b, other.b),
                        Plus(self.c, other.c),
                        Plus(self.d, other.c))]

add(self, other) ==
    [self |-> self, other |-> other,
     ret |-> Quaternion(Plus(self.a, other.a),
                        Plus(self.b, other.b),
                        Plus(self.c, other.c),
                        Plus(self.d, other.d))]

sub(self, other) ==
    [self |-> self, other |-> other,
     ret |-> Quaternion(Minus(self.a, other.a),
                        Minus(self.b, other.b),
                        Minus(self.c, other.c),
                        Minus(self.d, other.d))]

\* mul with the signs of the two cross terms of its second line exchanged.
mul_signflip(self, other) ==
    [self |-> self, other |-> other,
     ret |-> Quaternion(
        Minus(Minus(Minus(Times(self.a, other.a), Times(self.b, other.b)),
                    Times(self.c, other.c)), Times(self.d, other.d)),
        Plus(Minus(Plus(Times(self.a, other.b), Times(self.b, other.a)),
                   Times(self.c, other.d)), Times(self.d, other.c)),
        Plus(Plus(Minus(Times(self.a, other.c), Times(self.b, other.d)),
                  Times(self.c, other.a)), Times(self.d, other.b)),
        Plus(Minus(Plus(Times(self.a, other.d), Times(self.b, other.c)),
                   Times(self.c, other.b)), Times(self.d, other.a)))]

mul(self, other) ==
    [self |-> self, other |-> other,
     ret |-> Quaternion(
        Minus(Minus(Minus(Times(self.a, other.a), Times(self.b, other.b)),
                    Times(self.c, other.c)), Times(self.d, other.d)),
        Minus(Plus(Plus(Times(self.a, other.b), Times(self.b, other.a)),
                   Times(self.c, other.d)), Times(self.d, other.c)),
        Plus(Plus(Minus(Times(self.a, other.c), Times(self.b, other.d)),
                  Times(self.c, other.a)), Times(self.d, other.b)),
        Plus(Minus(Plus(Times(self.a, other.d), Times(self.b, other.c)),
                   Times(self.c, other.b)), Times(self.d, other.a)))]

norm(self) ==
    [self |-> self,
     ret |-> Sqrt(Plus(Plus(Plus(Pow2(self.a), Pow2(self.b)), Pow2(self.c)),
                       Pow2(self.d)))]

\* inverse without the negation of b, c, d.
inverse_unconjugated(self) ==
    LET n       == norm(self)
        norm_sq == Pow2(n.ret)
        s       == n.self
    IN  [self |-> s,
         ret |-> New(TrueDiv(s.a, norm_sq), TrueDiv(s.b, norm_sq),
                     TrueDiv(s.c, norm_sq), TrueDiv(s.d, norm_sq))]

\* inverse dividing by the norm instead of its square.
inverse_by_norm(self) ==
    LET n == norm(self)
        s == n.self
    IN  [self |-> s,
         ret |-> New(TrueDiv(s.a, n.ret), TrueDiv(Neg(s.b), n.ret),
                     TrueDiv(Neg(s.c), n.ret), TrueDiv(Neg(s.d), n.ret))]

\* inverse with a guard that returns the zero quaternion for zero norm.
inverse_guarded(self) ==
    LET n       == norm(self)
        norm_sq == Pow2(n.ret)
        s       == n.self
    IN  [self |-> s,
         ret |-> IF IsZero(norm_sq) THEN Quaternion(Zero, Zero, Zero, Zero)
                 ELSE New(TrueDiv(s.a, norm_sq), TrueDiv(Neg(s.b), norm_sq),
                          TrueDiv(Neg(s.c), norm_sq), TrueDiv(Neg(s.d), norm_sq))]

inverse(self) ==
    LET n       == norm(self)
        norm_sq == Pow2(n.ret)
        s       == n.self
    IN  [self |-> s,
         ret |-> New(TrueDiv(s.a, norm_sq),
                     TrueDiv(Neg(s.b), norm_sq),
                     TrueDiv(Neg(s.c), norm_sq),
                     TrueDiv(Neg(s.d), norm_sq))]

\* truediv with the inverse on the left: other.inverse() * self.
truediv_left(self, other) ==
    LET inv == inverse(other)
    IN  IF Raised(inv.ret)
        THEN [self |-> self, other |-> inv.self, ret |-> inv.ret]
        ELSE LET m == mul(inv.ret, self)
             IN  [self |-> m.other, other |-> inv.self, ret |-> m.ret]

\* self * other.inverse(): other.inverse() is evaluated first and, when it
\* raises, the multiplication is never reached.
truediv(self, other) ==
    LET inv == inverse(other)
    IN  IF Raised(inv.ret)
        THEN [self |-> self, other |-> inv.self, ret |-> inv.ret]
        ELSE LET m == mul(self, inv.ret)
             IN  [self |-> m.self, other |-> inv.self, ret |-> m.ret]

normalize(self) ==
    LET nn == norm(self)
        n  == nn.ret
        s  == nn.self
    IN  [self |-> s,
         ret |-> New(TrueDiv(s.a, n), TrueDiv(s.b, n), TrueDiv(s.c, n),
                     TrueDiv(s.d, n))]

\* conjugate that negates the scalar part too.
conjugate_all(self) ==
    [self |-> self,
     ret |-> Quaternion(Neg(self.a), Neg(self.b), Neg(self.c), Neg(self.d))]

\* conjugate in place: negates self.b, self.c, self.d and returns self.
conjugate_inplace(self) ==
    [self |-> Quaternion(self.a, Neg(self.b), Neg(self.c), Neg(self.d)),
     ret |-> Quaternion(self.a, Neg(self.b), Neg(self.c), Neg(self.d))]

conjugate(self) ==
    [self |-> self,
     ret |-> Quaternion(self.a, Neg(self.b), Neg(self.c), Neg(self.d))]

vector(self) == [self |-> self, ret |-> <<self.b, self.c, self.d>>]

\* rotate_vector with the conjugate in place of the inverse.
rotate_vector_conj(self, v) ==
    LET q_vector == Quaternion(Zero, v[1], v[2], v[3])
        m1       == mul(self, q_vector)
        cj       == conjugate(m1.self)
    IN  [self |-> cj.self, ret |-> vector(mul(m1.ret, cj.ret).ret).ret]

\* (self * q_vector * self.inverse()).vector(), evaluated left to right.
rotate_vector(self, v) ==
    LET q_vector == Quaternion(Zero, v[1], v[2], v[3])
        m1       == mul(self, q_vector)
        inv      == inverse(m1.self)
    IN  IF Raised(inv.ret)
        THEN [self |-> inv.self, ret |-> inv.ret]
        ELSE [self |-> inv.self, ret |-> vector(mul(m1.ret, inv.ret).ret).ret]

\* math.cos(k * pi / 4) and math.sin(k * pi / 4) for k \in 0..4: the half
\* angles of the rotations by k quarter turns.
cos_half(k) ==
    CASE k = 0 -> One
      [] k = 1 -> Real(1, 2, 2)
      [] k = 2 -> Zero
      [] k = 3 -> Real(-1, 2, 2)
      [] k = 4 -> Int2Real(-1)

sin_half(k) ==
    CASE k = 0 -> Zero
      [] k = 1 -> Real(1, 2, 2)
      [] k = 2 -> One
      [] k = 3 -> Real(1, 2, 2)
      [] k = 4 -> Zero

\* from_axis_angle(axis, angle) with angle = k * pi / 2.
from_axis_angle(axis, k) ==
    LET sin_half_angle == sin_half(k)
    IN  Quaternion(cos_half(k),
                   Times(axis[1], sin_half_angle),
                   Times(axis[2], sin_half_angle),
                   Times(axis[3], sin_half_angle))

to_axis_angle(self) ==
    LET angle          == acos2(self.a)
        sin_half_angle == Sqrt(Minus(One, Times(self.a, self.a)))
    IN  IF Raised(angle) THEN [self |-> self, ret |-> angle]
        ELSE IF Raised(sin_half_angle) THEN [self |-> self, ret |-> sin_half_angle]
        ELSE IF LessThan1em10(sin_half_angle)
        THEN [self |-> self, ret |-> [axis |-> <<One, Zero, Zero>>, angle |-> Zero]]
        ELSE [self |-> self,
              ret |-> [axis |-> <<TrueDiv(self.b, sin_half_angle),
                                  TrueDiv(self.c, sin_half_angle),
                                  TrueDiv(self.d, sin_half_angle)>>,
                       angle |-> angle]]

\* __repr__: the text "Quaternion(a, b, c, d)" of the stored coefficients.
repr(self) ==
    [self |-> self,
     ret |-> [text |-> "Quaternion", fields |-> <<self.a, self.b, self.c, self.d>>]]

(***************************************************************************)
(* Inputs                                                                  *)
(***************************************************************************)
Q4(a, b, c, d) == Quaternion(Int2Real(a), Int2Real(b), Int2Real(c), Int2Real(d))

V3(x, y, z) == <<Int2Real(x), Int2Real(y), Int2Real(z)>>

\* The coefficient quadruples the caller constructs: zero, the units
\* 1, -1, i, j, k, the quaternions of the doctests, mixed signs, and
\* non-integer coefficients.
Inputs ==
    { Q4(0, 0, 0, 0),
      Q4(1, 0, 0, 0), Q4(-1, 0, 0, 0), Q4(0, 1, 0, 0), Q4(0, 0, 1, 0),
      Q4(0, 0, 0, 1),
      Q4(1, 2, 3, 4), Q4(5, 6, 7, 8), Q4(4, 4, 4, 4), Q4(2, 2, 2, 2),
      Q4(-3, 1, 0, 2),
      Quaternion(Real(3, 5, 1), Real(4, 5, 1), Zero, Zero),
      Quaternion(Real(1, 2, 1), Real(-1, 2, 1), Real(1, 2, 1), Real(1, 2, 1)) }

\* The 3-vectors the caller rotates.
Vectors ==
    { V3(0, 0, 0), V3(1, 0, 0), V3(0, 1, 0), V3(0, 0, 1), V3(1, 1, 1),
      V3(1, -2, 3) }

\* The axes the caller builds rotations from.
Axes == { V3(1, 0, 0), V3(0, 1, 0), V3(0, 0, 1) }

\* Rotation angles, in quarter turns: angle = k * pi / 2.
QuarterTurns == 0..4

None == [none |-> TRUE]

(***************************************************************************)
(* Calls                                                                   *)
(***************************************************************************)
Init ==
    /\ objs = <<>>
    /\ op = "idle"
    /\ args = <<>>
    /\ ret = None

\* q = Quaternion(a, b, c, d)
Construct ==
    /\ op = "idle"
    /\ Len(objs) < MaxObjs
    /\ \E q \in Inputs :
          /\ objs' = Append(objs, Quaternion(q.a, q.b, q.c, q.d))
          /\ args' = <<q.a, q.b, q.c, q.d>>
    /\ op' = "init"
    /\ ret' = [ref |-> Len(objs) + 1]

\* A call objs[i].m(objs[j]) of a binary method m, r its outcome.
Binary(name, i, j, r) ==
    /\ op = "idle"
    /\ objs' = [[objs EXCEPT ![i] = r.self] EXCEPT ![j] = r.other]
    /\ op' = name
    /\ args' = <<i, j>>
    /\ ret' = r.ret

\* A call objs[i].m() (or objs[i].m(x)) of a method m, r its outcome.
Unary(name, i, x, r) ==
    /\ op = "idle"
    /\ objs' = [objs EXCEPT ![i] = r.self]
    /\ op' = name
    /\ args' = <<i>> \o x
    /\ ret' = r.ret

Add == \E i, j \in DOMAIN objs : Binary("add", i, j, add(objs[i], objs[j]))

Sub == \E i, j \in DOMAIN objs : Binary("sub", i, j, sub(objs[i], objs[j]))

Mul == \E i, j \in DOMAIN objs : Binary("mul", i, j, mul(objs[i], objs[j]))

Div == \E i, j \in DOMAIN objs : Binary("truediv", i, j, truediv(objs[i], objs[j]))

Norm == \E i \in DOMAIN objs : Unary("norm", i, <<>>, norm(objs[i]))

Inverse == \E i \in DOMAIN objs : Unary("inverse", i, <<>>, inverse(objs[i]))

Normalize == \E i \in DOMAIN objs : Unary("normalize", i, <<>>, normalize(objs[i]))

Conjugate == \E i \in DOMAIN objs : Unary("conjugate", i, <<>>, conjugate(objs[i]))

VectorPart == \E i \in DOMAIN objs : Unary("vector", i, <<>>, vector(objs[i]))

RotateVector ==
    \E i \in DOMAIN objs, v \in Vectors :
        Unary("rotate_vector", i, <<v>>, rotate_vector(objs[i], v))

ToAxisAngle ==
    \E i \in DOMAIN objs : Unary("to_axis_angle", i, <<>>, to_axis_angle(objs[i]))

Repr == \E i \in DOMAIN objs : Unary("repr", i, <<>>, repr(objs[i]))

\* Quaternion.from_axis_angle(axis, angle): a static method, no operand.
FromAxisAngle ==
    \E axis \in Axes, k \in QuarterTurns :
        /\ op = "idle"
        /\ objs' = objs
        /\ op' = "from_axis_angle"
        /\ args' = <<axis, k>>
        /\ ret' = from_axis_angle(axis, k)

\* The caller is done with the value returned (or the exception raised) and
\* goes on to its next statement.
Drop ==
    /\ op # "idle"
    /\ op' = "idle"
    /\ args' = <<>>
    /\ ret' = None
    /\ objs' = objs

Next ==
    \/ Construct
    \/ Add
    \/ Sub
    \/ Mul
    \/ Div
    \/ Norm
    \/ Inverse
    \/ Normalize
    \/ Conjugate
    \/ VectorPart
    \/ RotateVector
    \/ FromAxisAngle
    \/ ToAxisAngle
    \/ Repr
    \/ Drop

Spec == Init /\ [][Next]_vars

(***************************************************************************)
(* Properties                                                              *)
(***************************************************************************)
\* The receiver and the argument of the call just made.
Self == objs[args[1]]

Other == objs[args[2]]

ZeroQ == Q4(0, 0, 0, 0)

IsQuaternion(x) == DOMAIN x = {"a", "b", "c", "d"}

Sum4(w, x, y, z) == Plus(Plus(w, x), Plus(y, z))

\* a*a + b*b + c*c + d*d, without any square root.
SumSq(q) == Sum4(Times(q.a, q.a), Times(q.b, q.b), Times(q.c, q.c), Times(q.d, q.d))

\* x*x + y*y + z*z of a 3-vector.
SqLen(v) == Plus(Plus(Times(v[1], v[1]), Times(v[2], v[2])), Times(v[3], v[3]))

\* The Hamilton product as the specification writes it.
Hamilton(p, q) ==
    Quaternion(
        Sum4(Times(p.a, q.a), Neg(Times(p.b, q.b)), Neg(Times(p.c, q.c)), Neg(Times(p.d, q.d))),
        Sum4(Times(p.a, q.b), Times(p.b, q.a), Times(p.c, q.d), Neg(Times(p.d, q.c))),
        Sum4(Times(p.a, q.c), Neg(Times(p.b, q.d)), Times(p.c, q.a), Times(p.d, q.b)),
        Sum4(Times(p.a, q.d), Times(p.b, q.c), Neg(Times(p.c, q.b)), Times(p.d, q.a)))

\* C1: p * q is exactly the Hamilton product of p and q, in that order:
\* (1,2,3,4) * (5,6,7,8) = (-60,12,30,24), (5,6,7,8) * (1,2,3,4) = (-60,20,14,32).
C1_MulIsHamiltonProduct ==
    op = "mul" =>
        /\ ret = Hamilton(Self, Other)
        /\ (Self = Q4(1, 2, 3, 4) /\ Other = Q4(5, 6, 7, 8)) => ret = Q4(-60, 12, 30, 24)
        /\ (Self = Q4(5, 6, 7, 8) /\ Other = Q4(1, 2, 3, 4)) => ret = Q4(-60, 20, 14, 32)

C1_Witness ==
    /\ op = "mul"
    /\ Self = Q4(1, 2, 3, 4)
    /\ Other = Q4(5, 6, 7, 8)
    /\ ret = Q4(-60, 12, 30, 24)

\* C2: for nonzero q, q.inverse() is the conjugate of q divided by the
\* squared norm, and q * q.inverse() is the identity (1,0,0,0).
C2_InverseIsConjugateOverNormSq ==
    (op = "inverse" /\ Self # ZeroQ) =>
        /\ ret = Quaternion(TrueDiv(Self.a, SumSq(Self)),
                            TrueDiv(Neg(Self.b), SumSq(Self)),
                            TrueDiv(Neg(Self.c), SumSq(Self)),
                            TrueDiv(Neg(Self.d), SumSq(Self)))
        /\ mul(Self, ret).ret = Q4(1, 0, 0, 0)

C2_Witness ==
    /\ op = "inverse"
    /\ Self = Q4(4, 4, 4, 4)
    /\ ret = Quaternion(Real(1, 16, 1), Real(-1, 16, 1), Real(-1, 16, 1), Real(-1, 16, 1))

\* C3: for nonzero q, q.rotate_vector(v) is the vector part (b,c,d) of
\* (q * (0,v)) * q.inverse(); (1,2,3,4) rotates (1,1,1) to (1/5, 1, 7/5).
C3_RotateVectorIsSandwich ==
    (op = "rotate_vector" /\ Self # ZeroQ) =>
        LET v    == args[2]
            prod == mul(mul(Self, Quaternion(Zero, v[1], v[2], v[3])).ret,
                        inverse(Self).ret).ret
        IN  /\ ret = <<prod.b, prod.c, prod.d>>
            /\ (Self = Q4(1, 2, 3, 4) /\ v = V3(1, 1, 1)) =>
                    ret = <<Real(1, 5, 1), One, Real(7, 5, 1)>>

C3_Witness ==
    /\ op = "rotate_vector"
    /\ Self = Q4(1, 2, 3, 4)
    /\ args[2] = V3(1, 1, 1)
    /\ ret = <<Real(1, 5, 1), One, Real(7, 5, 1)>>

\* C4: for nonzero q, p / q is p * q.inverse(), the inverse on the right;
\* so (p * q) / q = p, and (4,4,4,4) / (2,2,2,2) = (2,0,0,0).
C4_DivideIsRightInverse ==
    /\ (op = "truediv" /\ Other # ZeroQ) =>
            /\ ret = Hamilton(Self, inverse(Other).ret)
            /\ (Self = Q4(4, 4, 4, 4) /\ Other = Q4(2, 2, 2, 2)) => ret = Q4(2, 0, 0, 0)
    /\ (op = "mul" /\ Other # ZeroQ) => truediv(ret, Other).ret = Self

C4_Witness ==
    /\ op = "truediv"
    /\ Self = Q4(1, 2, 3, 4)
    /\ Other = Q4(5, 6, 7, 8)
    /\ ret # Hamilton(inverse(Other).ret, Self)

\* sqrt(1 - a*a) < 1e-10, the degenerate case of to_axis_angle; never so
\* when 1 - a*a is negative and has no square root.
Degenerate(q) ==
    LET x == Minus(One, Times(q.a, q.a))
    IN  x.n >= 0 /\ LessThan1em10(Sqrt(x))

\* C5: to_axis_angle returns axis (1,0,0) and angle 0, without a fault,
\* when sqrt(1 - a*a) < 1e-10; for every other quaternion it returns the
\* axis (b/s, c/s, d/s), s = sqrt(1 - a*a), and the angle 2*acos(a).
C5_ToAxisAngleBranches ==
    op = "to_axis_angle" =>
        /\ ~Raised(ret)
        /\ Degenerate(Self) => ret = [axis |-> <<One, Zero, Zero>>, angle |-> Zero]
        /\ ~Degenerate(Self) =>
              LET s == Sqrt(Minus(One, Times(Self.a, Self.a)))
              IN  /\ Times(ret.axis[1], s) = Self.b
                  /\ Times(ret.axis[2], s) = Self.c
                  /\ Times(ret.axis[3], s) = Self.d
                  /\ ret.angle = [twice_acos |-> Self.a]

\* C6: no call changes the coefficients of an existing instance.
C6_OperandsNeverMutated ==
    [][\A i \in DOMAIN objs : objs'[i] = objs[i]]_vars

C6_Witness ==
    /\ op = "truediv"
    /\ objs = <<Q4(4, 4, 4, 4), Q4(2, 2, 2, 2)>>
    /\ args = <<1, 2>>
    /\ ret = Q4(2, 0, 0, 0)

\* C7: p + q is the component-wise sum; addition is commutative and
\* associative; (1,2,3,4) + (5,6,7,8) = (6,8,10,12).
C7_AddComponentwiseCommAssoc ==
    op = "add" =>
        /\ ret.a = Plus(Self.a, Other.a) /\ ret.b = Plus(Self.b, Other.b)
        /\ ret.c = Plus(Self.c, Other.c) /\ ret.d = Plus(Self.d, Other.d)
        /\ add(Other, Self).ret = ret
        /\ \A r \in Inputs : add(ret, r).ret = add(Self, add(Other, r).ret).ret
        /\ (Self = Q4(1, 2, 3, 4) /\ Other = Q4(5, 6, 7, 8)) => ret = Q4(6, 8, 10, 12)

C7_Witness ==
    /\ op = "add"
    /\ Self = Q4(1, 2, 3, 4)
    /\ Other = Q4(5, 6, 7, 8)
    /\ ret = Q4(6, 8, 10, 12)

\* C8: q.conjugate() is (a,-b,-c,-d) and conjugating twice gives q back.
C8_ConjugateInvolution ==
    op = "conjugate" =>
        /\ ret = Quaternion(Self.a, Minus(Zero, Self.b), Minus(Zero, Self.c),
                            Minus(Zero, Self.d))
        /\ conjugate(ret).ret = Self

C8_Witness ==
    /\ op = "conjugate"
    /\ Self = Q4(1, 2, 3, 4)
    /\ ret = Q4(1, -2, -3, -4)

\* C9: inverse, normalize and division by the zero quaternion raise
\* ZeroDivisionError and leave the operands as they were; on a nonzero
\* quaternion each returns a quaternion.
C9_ZeroNormFaults ==
    [][op' \in {"inverse", "normalize", "truediv"} =>
          LET q == objs[args'[Len(args')]]
          IN  /\ q = ZeroQ => (ret' = ZeroDivisionError /\ objs' = objs)
              /\ q # ZeroQ => IsQuaternion(ret')]_vars

C9_Witness ==
    /\ op = "truediv"
    /\ Self = Q4(1, 2, 3, 4)
    /\ Other = ZeroQ
    /\ ret = ZeroDivisionError

\* C10: for nonzero q, (q * (0,v)) * q.inverse() has scalar part 0 and
\* q.rotate_vector(v) has the squared length of v.
C10_RotationKeepsLength ==
    (op = "rotate_vector" /\ Self # ZeroQ) =>
        LET v == args[2]
        IN  /\ mul(mul(Self, Quaternion(Zero, v[1], v[2], v[3])).ret,
                   inverse(Self).ret).ret.a = Zero
            /\ SqLen(ret) = SqLen(v)

C10_Witness ==
    /\ op = "rotate_vector"
    /\ Self = Q4(5, 6, 7, 8)
    /\ args[2] = V3(1, -2, 3)
    /\ SqLen(ret) = Int2Real(14)
====
